---- MODULE Spec2Model ----
(***************************************************************************)
(* Quarter-CA backend: the consolidation -> ratio -> score -> trend        *)
(* pipeline of backend/financial_utils.py, its orchestrator run_analysis   *)
(* in backend/analyze_financials.py and the /analyze endpoint of           *)
(* backend/server.py.                                                      *)
(*                                                                         *)
(* Representation.  A Python str that the code parses or compares (a year  *)
(* header) is a sequence of ASCII codes.  A column header is a record      *)
(* [int, n, s]: an integer header carries n, a text header carries s.  A   *)
(* cell is [k, v] with k one of "num", "nan" (empty cell) and "text" (a    *)
(* cell pd.to_numeric cannot coerce).  A Field label is [na, s] where s is *)
(* a sequence of chunks, a chunk being a whitespace string or a word       *)
(* string, so that str.strip() is computed and not assumed.  Cell values   *)
(* are integers and ratios are exact rationals [n, d]; float rounding is   *)
(* not modelled.  Python's None and an optional value are the sequences    *)
(* <<>> and <<x>>.                                                         *)
(***************************************************************************)
EXTENDS Integers, Sequences, FiniteSets, TLC

VARIABLES
    file_paths,            \* run_analysis: the files given, as their contents
    pc,                    \* run_analysis / caller: position
    financials,            \* consolidate_financials' return: <<>> or <<dict>>
    detected_fiscal_year,  \* the fiscal year handed to compute_ratios (a str or an int)
    ratios,                \* compute_ratios' return
    sub_scores,            \* score_ratios' first return
    overall_score,         \* score_ratios' second return: <<>> while unset, else <<rational>>
    trend_df,              \* analyze_trends' return: <<>> while unset, else <<outcome>>
    result,                \* run_analysis' return: <<>> while running, else <<dict>>
    lookup,                \* get_value called directly: <<>> or <<[df, field_name, year, val]>>
    folder,                \* server: the upload folder, file name -> <<>> or <<owner, content>>
    req                    \* server: per request, its locals and position

pipe_vars == <<file_paths, pc, financials, detected_fiscal_year, ratios, sub_scores,
               overall_score, trend_df, result, lookup>>
srv_vars == <<folder, req>>
vars == <<file_paths, pc, financials, detected_fiscal_year, ratios, sub_scores,
          overall_score, trend_df, result, lookup, folder, req>>

----------------------------------------------------------------------------
(* Generic helpers *)

RECURSIVE SeqSum(_)
SeqSum(s) == IF s = <<>> THEN 0 ELSE Head(s) + SeqSum(Tail(s))

RECURSIVE Flatten(_)
Flatten(ss) == IF ss = <<>> THEN <<>> ELSE Head(ss) \o Flatten(Tail(ss))

Range(s) == {s[i] : i \in DOMAIN s}

Abs(x) == IF x < 0 THEN -x ELSE x

RECURSIVE Gcd(_, _)
Gcd(a, b) == IF b = 0 THEN a ELSE Gcd(b, a % b)

\* All sequences over S of length 0..n
SeqsUpTo(S, n) == UNION {[1..k -> S] : k \in 0..n}

\* All orderings (permutations) of a sequence
Perms(s) ==
    {[i \in DOMAIN s |-> s[p[i]]] :
        p \in {q \in [DOMAIN s -> DOMAIN s] : \A i, j \in DOMAIN s : q[i] = q[j] => i = j}}

----------------------------------------------------------------------------
(* Exact rationals: Python floats / numpy scalars, without rounding *)

Rat(n, d) ==
    LET g == Gcd(Abs(n), Abs(d))
        sgn == IF d < 0 THEN -1 ELSE 1
    IN [n |-> sgn * (n \div g), d |-> sgn * (d \div g)]

RatInt(i) == [n |-> i, d |-> 1]
RatAdd(a, b) == Rat(a.n * b.d + b.n * a.d, a.d * b.d)
RatSub(a, b) == Rat(a.n * b.d - b.n * a.d, a.d * b.d)
RatMul(a, b) == Rat(a.n * b.n, a.d * b.d)
RatLe(a, b) == a.n * b.d <= b.n * a.d
RatLt(a, b) == a.n * b.d < b.n * a.d
\* Python min(a, b): b only when b < a
RatMin(a, b) == IF RatLt(b, a) THEN b ELSE a

----------------------------------------------------------------------------
(* Python str / int / float on year headers *)

\* ASCII codes of the characters the parsers look at
Ascii == [sp |-> 32, plus |-> 43, minus |-> 45, dot |-> 46, zero |-> 48, nine |-> 57]
SP == Ascii.sp
PLUS == Ascii.plus
MINUS == Ascii.minus
DOT == Ascii.dot
IsDigit(c) == c \in Ascii.zero..Ascii.nine

RECURSIVE DigitsOf(_)
DigitsOf(n) == IF n < 10 THEN <<48 + n>> ELSE Append(DigitsOf(n \div 10), 48 + (n % 10))

\* str(n) for an int
StrOfInt(n) == IF n < 0 THEN <<MINUS>> \o DigitsOf(-n) ELSE DigitsOf(n)

\* str(x) for a header or a requested year
PyStr(h) == IF h.int THEN StrOfInt(h.n) ELSE h.s

RECURSIVE LStrip(_)
LStrip(s) == IF s # <<>> /\ Head(s) = SP THEN LStrip(Tail(s)) ELSE s

RECURSIVE RStrip(_)
RStrip(s) == IF s # <<>> /\ s[Len(s)] = SP THEN RStrip(SubSeq(s, 1, Len(s) - 1)) ELSE s

RECURSIVE DigitsVal(_)
DigitsVal(s) == IF s = <<>> THEN 0 ELSE 10 * DigitsVal(SubSeq(s, 1, Len(s) - 1)) + (s[Len(s)] - 48)

AllDigits(s) == \A i \in DOMAIN s : IsDigit(s[i])

\* int(s) for a str: <<>> on ValueError, else <<value>>.  Surrounding
\* whitespace and one sign are accepted, a decimal point is not.
IntOfStr(s) ==
    LET t == RStrip(LStrip(s))
        signed == t # <<>> /\ Head(t) \in {PLUS, MINUS}
        body == IF signed THEN Tail(t) ELSE t
    IN IF body # <<>> /\ AllDigits(body)
       THEN <<(IF signed /\ Head(t) = MINUS THEN -1 ELSE 1) * DigitsVal(body)>>
       ELSE <<>>

\* int(x) for a header or a requested year
PyInt(h) == IF h.int THEN <<h.n>> ELSE IntOfStr(h.s)

\* float(s) for a str: <<>> on ValueError, else <<rational>>.  Decimal
\* notation only: digits with at most one point and at least one digit.
FloatOfStr(s) ==
    LET t == RStrip(LStrip(s))
        signed == t # <<>> /\ Head(t) \in {PLUS, MINUS}
        body == IF signed THEN Tail(t) ELSE t
        dots == {i \in DOMAIN body : body[i] = DOT}
        p == IF dots = {} THEN Len(body) + 1 ELSE CHOOSE i \in dots : TRUE
        ip == SubSeq(body, 1, p - 1)
        fp == SubSeq(body, p + 1, Len(body))
        sgn == IF signed /\ Head(t) = MINUS THEN -1 ELSE 1
        pow10[k \in 0..Len(body)] == IF k = 0 THEN 1 ELSE 10 * pow10[k - 1]
    IN IF Cardinality(dots) <= 1 /\ AllDigits(ip) /\ AllDigits(fp) /\ Len(ip) + Len(fp) > 0
       THEN <<Rat(sgn * (DigitsVal(ip) * pow10[Len(fp)] + DigitsVal(fp)), pow10[Len(fp)])>>
       ELSE <<>>

\* Python's < on two str: lexicographic by code point
RECURSIVE StrLess(_, _)
StrLess(a, b) ==
    IF b = <<>> THEN FALSE
    ELSE IF a = <<>> THEN TRUE
    ELSE IF Head(a) # Head(b) THEN Head(a) < Head(b)
    ELSE StrLess(Tail(a), Tail(b))

----------------------------------------------------------------------------
(* Tables: pandas DataFrames as read from a sheet *)

IncomeStatement == "Income Statement"
BalanceSheet == "Balance Sheet"

\* The line items compute_ratios and analyze_trends look up
REVENUE == "Revenue from operations"
NET_PROFIT == "Profit/(Loss) for the year"
COGS_MATERIALS == "Cost of materials consumed"
COGS_PURCHASES == "Purchases of stock-in-trade"
COGS_CHANGES == "Changes in inventories of goods, work-in-progress and stock-in-trade"
CURRENT_ASSETS == "Current assets"
NON_CURRENT_ASSETS == "Non-current assets"
CURRENT_LIABILITIES == "Current liabilities"
NC_BORROWINGS == "Borrowings, non-current"
C_BORROWINGS == "Borrowings, current"
EQUITY == "Equity"
INVENTORIES == "Inventories"

\* The chunks of the model's labels in code-point order (Python's str order)
ChunkOrder == <<" ", C_BORROWINGS, NC_BORROWINGS, COGS_CHANGES, COGS_MATERIALS, CURRENT_ASSETS,
                CURRENT_LIABILITIES, EQUITY, INVENTORIES, NON_CURRENT_ASSETS, "Other income",
                NET_PROFIT, COGS_PURCHASES, REVENUE>>

ChunkRank(c) == CHOOSE i \in DOMAIN ChunkOrder : ChunkOrder[i] = c

\* Python's < on two labels
RECURSIVE LabelLess(_, _)
LabelLess(a, b) ==
    IF b = <<>> THEN FALSE
    ELSE IF a = <<>> THEN TRUE
    ELSE IF Head(a) # Head(b) THEN ChunkRank(Head(a)) < ChunkRank(Head(b))
    ELSE LabelLess(Tail(a), Tail(b))

IsSpace(c) == c = " "

\* str.strip() on a label
RECURSIVE StripLabel(_)
StripLabel(s) ==
    IF s # <<>> /\ IsSpace(Head(s)) THEN StripLabel(Tail(s))
    ELSE IF s # <<>> /\ IsSpace(s[Len(s)]) THEN StripLabel(SubSeq(s, 1, Len(s) - 1))
    ELSE s

IntHeader(n) == [int |-> TRUE, n |-> n, s |-> <<>>]
StrHeader(s) == [int |-> FALSE, n |-> 0, s |-> s]

Num(v) == [k |-> "num", v |-> v]
NanCell == [k |-> "nan", v |-> 0]
TextCell == [k |-> "text", v |-> 0]

Label(s) == [na |-> FALSE, s |-> s]
NaLabel == [na |-> TRUE, s |-> <<>>]

Row(field, cells) == [Field |-> field, cells |-> cells]
Frame(hasField, cols, rows) == [hasField |-> hasField, cols |-> cols, rows |-> rows]

ColIdx(cols, h) == CHOOSE i \in DOMAIN cols : cols[i] = h
HasCol(df, h) == \E i \in DOMAIN df.cols : df.cols[i] = h

\* Series.fillna("") on the Field column
FillNa(field) == IF field.na THEN Label(<<>>) ELSE field

----------------------------------------------------------------------------
(* financial_utils.read_financials / consolidate_financials *)

\* A file is [readable, sheets]; pd.read_excel(sheet_name=None) gives the
\* dict of its sheets, any exception gives None.
read_financials(file) == IF file.readable THEN <<file.sheets>> ELSE <<>>

\* Step 1: the sheets named `name` of the readable files, in file order
RECURSIVE CollectSheets(_, _)
CollectSheets(paths, name) ==
    IF paths = <<>> THEN <<>>
    ELSE LET sheets == read_financials(Head(paths))
             rest == CollectSheets(Tail(paths), name)
         IN IF sheets = <<>> THEN rest
            ELSE IF name \in DOMAIN sheets[1] THEN <<sheets[1][name]>> \o rest
            ELSE rest

\* pd.concat: the union of the columns in order of first appearance
RECURSIVE ConcatCols(_)
ConcatCols(frames) ==
    IF frames = <<>> THEN <<>>
    ELSE LET before == ConcatCols(SubSeq(frames, 1, Len(frames) - 1))
             last == frames[Len(frames)]
         IN before \o SelectSeq(last.cols, LAMBDA h : \A i \in DOMAIN before : before[i] # h)

\* pd.concat: every row of every frame, a column the frame lacks left empty
ConcatRows(frames, cols) ==
    Flatten([f \in DOMAIN frames |->
        [r \in DOMAIN frames[f].rows |->
            Row(IF frames[f].hasField THEN frames[f].rows[r].Field ELSE NaLabel,
                [j \in DOMAIN cols |->
                    IF HasCol(frames[f], cols[j])
                    THEN frames[f].rows[r].cells[ColIdx(frames[f].cols, cols[j])]
                    ELSE NanCell])]])

PdConcat(frames) ==
    LET cols == ConcatCols(frames)
    IN Frame(\E f \in DOMAIN frames : frames[f].hasField, cols, ConcatRows(frames, cols))

\* all["Field"].fillna("").str.strip()
StripField(df) ==
    Frame(TRUE, df.cols,
          [r \in DOMAIN df.rows |-> Row(Label(StripLabel(FillNa(df.rows[r].Field).s)), df.rows[r].cells)])

\* A column is numeric (summed under numeric_only=True) when no cell of it
\* is text; a column holding a text cell has dtype object and is dropped.
IsNumericCol(df, j) == \A r \in DOMAIN df.rows : df.rows[r].cells[j].k # "text"

\* The groups' keys, sorted as groupby sorts them
RECURSIVE SortLabels(_)
SortLabels(S) ==
    IF S = {} THEN <<>>
    ELSE LET m == CHOOSE a \in S : \A b \in S \ {a} : LabelLess(a, b)
         IN <<m>> \o SortLabels(S \ {m})

\* The group's first numeric cell instead of the group's sum
GroupFirst(df, label, j) ==
    LET rows == {r \in DOMAIN df.rows : df.rows[r].Field.s = label /\ df.rows[r].cells[j].k = "num"}
    IN IF rows = {} THEN 0 ELSE df.rows[CHOOSE r \in rows : \A q \in rows : r <= q].cells[j].v

\* sum() of one group's column: empty cells are skipped
GroupSum(df, label, j) ==
    SeqSum([r \in DOMAIN df.rows |->
        IF df.rows[r].Field.s = label /\ df.rows[r].cells[j].k = "num"
        THEN df.rows[r].cells[j].v ELSE 0])

\* df.groupby("Field").sum(numeric_only=True).reset_index()
GroupByFieldSum(df) ==
    LET keep == SelectSeq([j \in DOMAIN df.cols |-> j], LAMBDA j : IsNumericCol(df, j))
        labels == SortLabels({df.rows[r].Field.s : r \in DOMAIN df.rows})
    IN Frame(TRUE, [i \in DOMAIN keep |-> df.cols[keep[i]]],
             [g \in DOMAIN labels |->
                 Row(Label(labels[g]), [i \in DOMAIN keep |-> Num(GroupSum(df, labels[g], keep[i]))])])

\* Steps 3-4 for one statement: <<>> when all["Field"] raises KeyError
ConsolidateSheet(frames) ==
    LET all == PdConcat(frames)
    IN IF ~all.hasField THEN <<>> ELSE <<GroupByFieldSum(StripField(all))>>

\* consolidate_financials: None (<<>>) or <<the dict of the two statements>>
consolidate_financials(paths) ==
    LET inc == CollectSheets(paths, IncomeStatement)
        bal == CollectSheets(paths, BalanceSheet)
    IN IF inc = <<>> \/ bal = <<>> THEN <<>>
       ELSE LET final_income == ConsolidateSheet(inc)
                final_balance == ConsolidateSheet(bal)
            IN IF final_income = <<>> \/ final_balance = <<>> THEN <<>>
               ELSE <<[income |-> final_income[1], balance |-> final_balance[1]]>>

----------------------------------------------------------------------------
(* financial_utils.compute_ratios *)

\* The lookup degrading to 0 when more than one row matches
get_value_unique(df, field_name, year) ==
    LET match == {r \in DOMAIN df.rows : df.rows[r].Field = Label(<<field_name>>)}
        only == CHOOSE r \in match : TRUE
        val == IF Cardinality(match) = 1 THEN df.rows[only].cells[ColIdx(df.cols, year)] ELSE Num(0)
    IN IF val.k = "num" THEN val.v ELSE 0

\* get_value (the same helper in compute_ratios and analyze_trends):
\* the cell of the first row whose Field equals field_name, 0 without a
\* match; pd.to_numeric(errors="coerce") and the notna test turn an empty
\* or a text cell into 0.
get_value(df, field_name, year) ==
    LET match == {r \in DOMAIN df.rows : df.rows[r].Field = Label(<<field_name>>)}
        first == CHOOSE r \in match : \A q \in match : r <= q
        val == IF match # {} THEN df.rows[first].cells[ColIdx(df.cols, year)] ELSE Num(0)
    IN IF val.k = "num" THEN val.v ELSE 0

\* The division without its guard: numpy's x / 0
UnguardedDiv(a, b) == IF b # 0 THEN Rat(a, b) ELSE [n |-> a, d |-> 0]

\* (a / b) if b != 0 else 0
GuardedDiv(a, b) == IF b # 0 THEN Rat(a, b) ELSE RatInt(0)

RatioKeys == {"Net Profit Margin", "Return on Assets (ROA)", "Debt to Equity Ratio",
              "Current Ratio", "Gross Margin", "Quick Ratio"}

EmptyDict == [k \in {} |-> 0]

\* The validation without its integer fallback
ResolveYearStrOnly(income, balance, fiscal_year) ==
    IF HasCol(income, StrHeader(PyStr(fiscal_year))) /\ HasCol(balance, StrHeader(PyStr(fiscal_year)))
    THEN <<StrHeader(PyStr(fiscal_year))>>
    ELSE <<>>

\* The validated year: <<>> when neither form is a column of both statements
ResolveYear(income, balance, fiscal_year) ==
    LET year_str == StrHeader(PyStr(fiscal_year))
        year_int == PyInt(fiscal_year)
    IN IF HasCol(income, year_str) /\ HasCol(balance, year_str) THEN <<year_str>>
       ELSE IF year_int # <<>> /\ HasCol(income, IntHeader(year_int[1]))
                 /\ HasCol(balance, IntHeader(year_int[1]))
       THEN <<IntHeader(year_int[1])>>
       ELSE <<>>

\* The ratios for a validated year
RatiosFor(income, balance, latest_year) ==
    LET revenue == get_value(income, REVENUE, latest_year)
        net_profit == get_value(income, NET_PROFIT, latest_year)
        cogs_materials == get_value(income, COGS_MATERIALS, latest_year)
        cogs_purchases == get_value(income, COGS_PURCHASES, latest_year)
        cogs_changes == get_value(income, COGS_CHANGES, latest_year)
        current_assets == get_value(balance, CURRENT_ASSETS, latest_year)
        non_current_assets == get_value(balance, NON_CURRENT_ASSETS, latest_year)
        total_assets == current_assets + non_current_assets
        current_liabilities == get_value(balance, CURRENT_LIABILITIES, latest_year)
        nc_borrowings == get_value(balance, NC_BORROWINGS, latest_year)
        c_borrowings == get_value(balance, C_BORROWINGS, latest_year)
        total_debt == nc_borrowings + c_borrowings
        total_equity == get_value(balance, EQUITY, latest_year)
        inventories == get_value(balance, INVENTORIES, latest_year)
        total_cogs == cogs_materials + cogs_purchases + cogs_changes
        gross_profit == revenue - total_cogs
        quick_assets == current_assets - inventories
    IN [k \in RatioKeys |->
          CASE k = "Net Profit Margin" -> GuardedDiv(net_profit, revenue)
            [] k = "Return on Assets (ROA)" -> GuardedDiv(net_profit, total_assets)
            [] k = "Debt to Equity Ratio" -> GuardedDiv(total_debt, total_equity)
            [] k = "Current Ratio" -> GuardedDiv(current_assets, current_liabilities)
            [] k = "Gross Margin" -> GuardedDiv(gross_profit, revenue)
            [] k = "Quick Ratio" -> GuardedDiv(quick_assets, current_liabilities)]

\* compute_ratios(financials, fiscal_year): {} on any failed validation.
\* The fillna("") of lines 100-101 changes no lookup: an empty label and a
\* missing one both differ from every line item's name.
compute_ratios(fin, fiscal_year) ==
    IF fin = <<>> THEN EmptyDict
    ELSE LET income == fin[1].income
             balance == fin[1].balance
             year_to_analyze == ResolveYear(income, balance, fiscal_year)
         IN IF year_to_analyze = <<>> THEN EmptyDict
            ELSE RatiosFor(income, balance, year_to_analyze[1])

----------------------------------------------------------------------------
(* financial_utils.score_ratios *)

\* ratios.get(key, 0)
DictGet(d, key) == IF key \in DOMAIN d THEN d[key] ELSE RatInt(0)

Profitability(r) ==
    RatMul(RatAdd(RatMul(DictGet(r, "Net Profit Margin"), RatInt(100)),
                  RatMul(DictGet(r, "Gross Margin"), RatInt(100))), Rat(1, 2))

Liquidity(r) ==
    RatMul(RatAdd(RatMul(RatMin(RatMul(DictGet(r, "Current Ratio"), Rat(1, 2)), RatInt(1)), RatInt(100)),
                  RatMul(RatMin(DictGet(r, "Quick Ratio"), RatInt(1)), RatInt(100))), Rat(1, 2))

Leverage(r) ==
    RatMul(RatSub(RatInt(1), RatMin(RatMul(DictGet(r, "Debt to Equity Ratio"), Rat(1, 3)), RatInt(1))),
           RatInt(100))

\* ROA / 0.1 is ROA * 10
Efficiency(r) ==
    RatMul(RatMin(RatMul(DictGet(r, "Return on Assets (ROA)"), RatInt(10)), RatInt(1)), RatInt(100))

ScoreKeys == {"Profitability", "Liquidity", "Leverage", "Efficiency"}

\* score_ratios(ratios): [sub_scores, overall]
score_ratios(r) ==
    IF DOMAIN r = {} THEN [sub_scores |-> EmptyDict, overall |-> RatInt(0)]
    ELSE LET sub == [k \in ScoreKeys |->
                       CASE k = "Profitability" -> Profitability(r)
                         [] k = "Liquidity" -> Liquidity(r)
                         [] k = "Leverage" -> Leverage(r)
                         [] k = "Efficiency" -> Efficiency(r)]
             total == RatAdd(RatAdd(sub["Profitability"], sub["Liquidity"]),
                             RatAdd(sub["Leverage"], sub["Efficiency"]))
         IN [sub_scores |-> sub, overall |-> RatMul(total, Rat(1, Cardinality(DOMAIN sub)))]

----------------------------------------------------------------------------
(* financial_utils.analyze_trends *)

\* Python's sorted(): a stable sort.  lt[i][j] tells whether s[i] sorts
\* before s[j]; an element goes after the elements that sort before it and
\* after the earlier elements that compare equal to it.
StableSort(s, lt) ==
    LET rank(i) == 1 + Cardinality({j \in DOMAIN s : lt[j][i] \/ (~lt[i][j] /\ j < i)})
    IN [p \in DOMAIN s |-> s[CHOOSE i \in DOMAIN s : rank(i) = p]]

\* int(str(x)), the sort key
YearKey(x) == IntOfStr(PyStr(x))

\* The try/except around sorted(): <<>> when the fallback sorted(years)
\* raises TypeError (an int compared with a str), else <<sorted_years>>
SortYears(years) ==
    IF \A i \in DOMAIN years : YearKey(years[i]) # <<>>
    THEN <<StableSort(years, [i \in DOMAIN years |-> [j \in DOMAIN years |->
                                 YearKey(years[i])[1] < YearKey(years[j])[1]]])>>
    ELSE IF \A i \in DOMAIN years : ~years[i].int
    THEN <<StableSort(years, [i \in DOMAIN years |-> [j \in DOMAIN years |->
                                 StrLess(years[i].s, years[j].s)]])>>
    ELSE IF \A i \in DOMAIN years : years[i].int
    THEN <<StableSort(years, [i \in DOMAIN years |-> [j \in DOMAIN years |->
                                 years[i].n < years[j].n]])>>
    ELSE <<>>

EmptyDataFrame == [cols |-> <<>>, index |-> <<>>, values |-> <<>>]

TrendIndex == <<"Revenue (in currency)", "Net Profit (in currency)", "Net Margin (%)">>

\* One trend_data entry, as <<Revenue, Net Profit, Net Margin (%)>>
TrendEntry(income, year) ==
    LET revenue == get_value(income, REVENUE, year)
        pat == get_value(income, NET_PROFIT, year)
    IN <<RatInt(revenue), RatInt(pat),
         IF revenue # 0 THEN RatMul(Rat(pat, revenue), RatInt(100)) ELSE RatInt(0)>>

\* pd.DataFrame(trend_data).set_index("Year").T with the renamed index
TrendTable(income, sorted_years) ==
    [cols |-> sorted_years, index |-> TrendIndex,
     values |-> [m \in DOMAIN TrendIndex |->
                    [y \in DOMAIN sorted_years |-> TrendEntry(income, sorted_years[y])[m]]]]

\* analyze_trends(financials): [raised, df]
analyze_trends(fin) ==
    IF fin = <<>> THEN [raised |-> FALSE, df |-> EmptyDataFrame]
    ELSE LET income == fin[1].income
             years == income.cols
             sorted_years == SortYears(years)
         IN IF years = <<>> THEN [raised |-> FALSE, df |-> EmptyDataFrame]
            ELSE IF sorted_years = <<>> THEN [raised |-> TRUE, df |-> EmptyDataFrame]
            ELSE [raised |-> FALSE, df |-> TrendTable(income, sorted_years[1])]

----------------------------------------------------------------------------
(* analyze_financials.run_analysis *)

ErrConsolidate == "Failed to read or consolidate financial data."
ErrNoYearColumns == "No fiscal year columns found in the consolidated data."
ErrNoNumericYear == "Could not detect any numeric fiscal year columns (e.g., 2023, 2024)."
ErrRatios == "Failed to compute ratios for auto-detected year."
ErrException == "An error occurred during analysis."

\* An error returned alongside a partly filled result
ErrorWithPartialResult(msg) == [error |-> msg, ratios |-> EmptyDict, sub_scores |-> EmptyDict]

\* return {"error": ...}
ErrorResult(msg) == [error |-> msg]

\* The detection taking the first column that parses instead of the maximum
DetectFirstNumericYear(year_columns) ==
    LET parsed == {i \in DOMAIN year_columns : FloatOfStr(PyStr(year_columns[i])) # <<>>}
        first == CHOOSE i \in parsed : \A j \in parsed : i <= j
    IN IF parsed = {} THEN <<>> ELSE <<StrHeader(PyStr(year_columns[first]))>>

\* float(str(col)) for every year column; the dict numeric_years keeps,
\* per float value, the last column that parsed to it.  <<>> when no
\* column parses, else <<str(numeric_years[max(numeric_years.keys())])>>.
DetectFiscalYear(year_columns) ==
    LET parsed == {i \in DOMAIN year_columns : FloatOfStr(PyStr(year_columns[i])) # <<>>}
        val(i) == FloatOfStr(PyStr(year_columns[i]))[1]
        top == {i \in parsed : \A j \in parsed : RatLe(val(j), val(i))}
        last == CHOOSE i \in top : \A j \in top : j <= i
    IN IF parsed = {} THEN <<>> ELSE <<StrHeader(PyStr(year_columns[last]))>>

\* trend_df.reset_index().rename(columns={"index": "Metric"}).to_dict(orient="records")
TrendRecords(df) ==
    [m \in DOMAIN df.index |-> [Metric |-> df.index[m], years |-> df.cols, values |-> df.values[m]]]

\* generate_ai_insights: the model's text, or one of its two error strings
AiInsights == {"advice", "Error: OPENAI_API_KEY not found.", "Error connecting to OpenAI API"}

FullResult(r, sub, overall, trend_json, ai_insights, year) ==
    [ratios |-> r, sub_scores |-> sub, overall_score |-> overall, trends |-> trend_json,
     ai_insights |-> ai_insights, detected_fiscal_year |-> PyStr(year)]

\* Step 1: consolidate_financials(file_paths), None checked
Consolidate ==
    /\ pc = "consolidate"
    /\ financials' = consolidate_financials(file_paths)
    /\ IF financials' = <<>>
       THEN result' = <<ErrorResult(ErrConsolidate)>> /\ pc' = "done"
       ELSE result' = result /\ pc' = "detect"
    /\ UNCHANGED <<file_paths, detected_fiscal_year, ratios, sub_scores, overall_score,
                   trend_df, lookup, folder, req>>

\* Auto-detection of the latest fiscal year
DetectYear ==
    /\ pc = "detect"
    /\ LET year_columns == financials[1].income.cols
           detected == DetectFiscalYear(year_columns)
       IN IF year_columns = <<>>
          THEN /\ result' = <<ErrorResult(ErrNoYearColumns)>>
               /\ pc' = "done"
               /\ UNCHANGED detected_fiscal_year
          ELSE IF detected = <<>>
          THEN /\ result' = <<ErrorResult(ErrNoNumericYear)>>
               /\ pc' = "done"
               /\ UNCHANGED detected_fiscal_year
          ELSE /\ detected_fiscal_year' = detected
               /\ pc' = "ratios"
               /\ UNCHANGED result
    /\ UNCHANGED <<file_paths, financials, ratios, sub_scores, overall_score, trend_df,
                   lookup, folder, req>>

\* Step 2: compute_ratios for the detected year, {} checked
ComputeRatios ==
    /\ pc = "ratios"
    /\ ratios' = compute_ratios(financials, detected_fiscal_year[1])
    /\ IF DOMAIN ratios' = {}
       THEN result' = <<ErrorResult(ErrRatios)>> /\ pc' = "done"
       ELSE result' = result /\ pc' = "score"
    /\ UNCHANGED <<file_paths, financials, detected_fiscal_year, sub_scores, overall_score,
                   trend_df, lookup, folder, req>>

\* Step 3: score_ratios
ScoreRatios ==
    /\ pc = "score"
    /\ sub_scores' = score_ratios(ratios).sub_scores
    /\ overall_score' = <<score_ratios(ratios).overall>>
    /\ pc' = "trends"
    /\ UNCHANGED <<file_paths, financials, detected_fiscal_year, ratios, trend_df, result,
                   lookup, folder, req>>

\* Step 4: analyze_trends; an exception it raises is caught by run_analysis
AnalyzeTrends ==
    /\ pc = "trends"
    /\ trend_df' = <<analyze_trends(financials)>>
    /\ IF trend_df'[1].raised
       THEN result' = <<ErrorResult(ErrException)>> /\ pc' = "done"
       ELSE result' = result /\ pc' = "insights"
    /\ UNCHANGED <<file_paths, financials, detected_fiscal_year, ratios, sub_scores,
                   overall_score, lookup, folder, req>>

\* Steps 5-6: generate_ai_insights and the final dict
Assemble ==
    /\ pc = "insights"
    /\ \E ai_insights \in AiInsights :
          result' = <<FullResult(ratios, sub_scores, overall_score[1],
                                 TrendRecords(trend_df[1].df), ai_insights,
                                 detected_fiscal_year[1])>>
    /\ pc' = "done"
    /\ UNCHANGED <<file_paths, financials, detected_fiscal_year, ratios, sub_scores,
                   overall_score, trend_df, lookup, folder, req>>

----------------------------------------------------------------------------
(* The input files of the pipeline *)

MaxFiles == 2

Y2023 == IntHeader(2023)
Y2024 == IntHeader(2024)
S2024 == StrHeader(<<50, 48, 50, 52>>)      \* "2024"
S9 == StrHeader(<<57>>)                      \* "9"
S10 == StrHeader(<<49, 48>>)                 \* "10"
FY23 == StrHeader(<<70, 89, 50, 51>>)        \* "FY23"
FY21 == StrHeader(<<70, 89, 50, 49>>)        \* "FY21"
ITEM == StrHeader(<<73, 116, 101, 109>>)     \* "Item"

IncomeSheets ==
    [plain |-> Frame(TRUE, <<Y2024, Y2023>>,
                 <<Row(Label(<<REVENUE>>), <<Num(4), Num(2)>>),
                   Row(Label(<<NET_PROFIT>>), <<Num(1), Num(-1)>>),
                   Row(Label(<<COGS_MATERIALS>>), <<Num(1), Num(1)>>)>>),
     padded |-> Frame(TRUE, <<Y2024>>,
                 <<Row(Label(<<" ", REVENUE, " ">>), <<Num(1)>>),
                   Row(Label(<<NET_PROFIT>>), <<NanCell>>),
                   Row(NaLabel, <<Num(7)>>)>>),
     loss |-> Frame(TRUE, <<Y2024>>,
                 <<Row(Label(<<REVENUE>>), <<Num(1)>>),
                   Row(Label(<<NET_PROFIT>>), <<Num(-3)>>)>>),
     mixed |-> Frame(TRUE, <<Y2024, FY23>>,
                 <<Row(Label(<<REVENUE>>), <<Num(4), Num(2)>>),
                   Row(Label(<<NET_PROFIT>>), <<Num(2), Num(1)>>)>>),
     text |-> Frame(TRUE, <<Y2024>>,
                 <<Row(Label(<<REVENUE>>), <<TextCell>>),
                   Row(Label(<<NET_PROFIT>>), <<Num(1)>>)>>),
     labels |-> Frame(TRUE, <<FY23, FY21>>,
                 <<Row(Label(<<REVENUE>>), <<Num(3), Num(2)>>)>>),
     strings |-> Frame(TRUE, <<S10, S2024, S9>>,
                 <<Row(Label(<<REVENUE>>), <<Num(5), Num(2), Num(4)>>),
                   Row(Label(<<NET_PROFIT>>), <<Num(1), Num(1), Num(0)>>)>>),
     nofield |-> Frame(FALSE, <<ITEM, Y2024>>,
                 <<Row(NaLabel, <<TextCell, Num(5)>>)>>)]

BalanceSheets ==
    [plain |-> Frame(TRUE, <<Y2023, Y2024>>,
                 <<Row(Label(<<CURRENT_ASSETS>>), <<Num(3), Num(6)>>),
                   Row(Label(<<NON_CURRENT_ASSETS>>), <<Num(1), Num(2)>>),
                   Row(Label(<<CURRENT_LIABILITIES>>), <<Num(1), Num(2)>>),
                   Row(Label(<<C_BORROWINGS>>), <<Num(0), Num(3)>>),
                   Row(Label(<<EQUITY>>), <<Num(2), Num(1)>>),
                   Row(Label(<<INVENTORIES>>), <<Num(1), Num(1)>>)>>),
     padded |-> Frame(TRUE, <<Y2024>>,
                 <<Row(Label(<<CURRENT_ASSETS, " ">>), <<Num(2)>>),
                   Row(Label(<<CURRENT_LIABILITIES>>), <<Num(0)>>),
                   Row(Label(<<EQUITY>>), <<Num(-1)>>),
                   Row(Label(<<NC_BORROWINGS>>), <<Num(2)>>)>>),
     strings |-> Frame(TRUE, <<S2024, S10>>,
                 <<Row(Label(<<CURRENT_ASSETS>>), <<Num(4), Num(1)>>),
                   Row(Label(<<CURRENT_LIABILITIES>>), <<Num(2), Num(1)>>)>>),
     old |-> Frame(TRUE, <<Y2023>>,
                 <<Row(Label(<<EQUITY>>), <<Num(2)>>),
                   Row(Label(<<CURRENT_ASSETS>>), <<TextCell>>)>>),
     nofield |-> Frame(FALSE, <<ITEM, Y2024>>,
                 <<Row(NaLabel, <<TextCell, Num(5)>>)>>)]

\* The dict pd.read_excel returns: the sheets the workbook holds
Sheets(inc, bal) ==
    [n \in (IF inc = <<>> THEN {} ELSE {IncomeStatement}) \cup (IF bal = <<>> THEN {} ELSE {BalanceSheet})
        |-> IF n = IncomeStatement THEN inc[1] ELSE bal[1]]

Workbook(inc, bal) == [readable |-> TRUE, sheets |-> Sheets(inc, bal)]
Unreadable == [readable |-> FALSE, sheets |-> Sheets(<<>>, <<>>)]

Files ==
    {Unreadable,
     Workbook(<<IncomeSheets.plain>>, <<BalanceSheets.plain>>),
     Workbook(<<IncomeSheets.padded>>, <<BalanceSheets.padded>>),
     Workbook(<<IncomeSheets.loss>>, <<BalanceSheets.padded>>),
     Workbook(<<IncomeSheets.mixed>>, <<BalanceSheets.plain>>),
     Workbook(<<IncomeSheets.text>>, <<BalanceSheets.plain>>),
     Workbook(<<IncomeSheets.labels>>, <<BalanceSheets.plain>>),
     Workbook(<<IncomeSheets.strings>>, <<BalanceSheets.strings>>),
     Workbook(<<IncomeSheets.nofield>>, <<BalanceSheets.nofield>>),
     Workbook(<<IncomeSheets.plain>>, <<BalanceSheets.old>>),
     Workbook(<<IncomeSheets.plain>>, <<>>),
     Workbook(<<>>, <<BalanceSheets.plain>>),
     Workbook(<<>>, <<>>)}

----------------------------------------------------------------------------
(* server.analyze_file *)

MAX_FILES == 5
ALLOWED_EXTENSIONS == {"xlsx"}

\* The requests in flight at once, and how many files one request uploads
Requests == {1, 2}
MaxUpload == 2

\* An uploaded filename is [dir, stem, ext]; ext is <<>> without a dot
Filename(dir, stem, ext) == [dir |-> dir, stem |-> stem, ext |-> ext]

\* str.lower() on the extensions of the model
Lower(e) == IF e = "XLSX" THEN "xlsx" ELSE e

allowed_file(filename) == filename.ext # <<>> /\ Lower(filename.ext[1]) \in ALLOWED_EXTENSIONS

\* werkzeug's secure_filename drops the directory part;
\* os.path.join(UPLOAD_FOLDER, .) then names the file in the folder
secure_filename(filename) == <<filename.stem, filename.ext[1]>>

\* The part a browser sends when no file was selected: filename == ""
NoFilename == Filename("", "", <<>>)

Uploads == {Filename("", "a", <<"xlsx">>), Filename("../", "a", <<"xlsx">>),
            Filename("", "b", <<"XLSX">>), Filename("", "a", <<"csv">>), NoFilename}

Paths == {secure_filename(u) : u \in {v \in Uploads : allowed_file(v)}}

IdleRequest == [pc |-> "idle", files |-> <<>>, file_paths |-> <<>>, i |-> 1, j |-> 1,
                read |-> <<>>, status |-> 0]

\* request.files.getlist("file") and the three early 400 returns (no file
\* part, an empty first filename, more than MAX_FILES files)
Receive(r) ==
    /\ req[r].pc = "idle"
    /\ \E files \in SeqsUpTo(Uploads, MaxUpload) :
          req' = [req EXCEPT ![r] =
                    IF files = <<>> \/ files[1] = NoFilename \/ Len(files) > MAX_FILES
                    THEN [@ EXCEPT !.pc = "done", !.files = files, !.status = 400]
                    ELSE [@ EXCEPT !.pc = "save", !.files = files]]
    /\ UNCHANGED <<folder, pipe_vars>>

\* One round of the loop at step 2: save an allowed file, or return 400
\* from inside the try (the finally clause still runs)
SaveFile(r) ==
    /\ req[r].pc = "save"
    /\ LET file == req[r].files[req[r].i]
       IN IF req[r].i > Len(req[r].files)
          THEN /\ req' = [req EXCEPT ![r].pc = "analyze"]
               /\ UNCHANGED folder
          ELSE IF allowed_file(file)
          THEN /\ folder' = [folder EXCEPT ![secure_filename(file)] = <<[owner |-> r, part |-> req[r].i]>>]
               /\ req' = [req EXCEPT ![r].file_paths = Append(@, secure_filename(file)),
                                     ![r].i = @ + 1]
          ELSE /\ req' = [req EXCEPT ![r].pc = "cleanup", ![r].status = 400]
               /\ UNCHANGED folder
    /\ UNCHANGED pipe_vars

\* Step 3: run_analysis reads the saved paths; its result (or an exception
\* while the response is built) decides the status
Analyze(r) ==
    /\ req[r].pc = "analyze"
    /\ \E outcome \in {"result", "error", "exception"} :
          req' = [req EXCEPT ![r].pc = "cleanup",
                             ![r].read = [k \in DOMAIN req[r].file_paths |-> folder[req[r].file_paths[k]]],
                             ![r].status = IF outcome = "result" THEN 200 ELSE 500]
    /\ UNCHANGED <<folder, pipe_vars>>

\* finally: os.path.exists(fp) for the next path
CleanupCheck(r) ==
    /\ req[r].pc = "cleanup"
    /\ IF req[r].j > Len(req[r].file_paths)
       THEN req' = [req EXCEPT ![r].pc = "done"]
       ELSE IF folder[req[r].file_paths[req[r].j]] # <<>>
       THEN req' = [req EXCEPT ![r].pc = "remove"]
       ELSE req' = [req EXCEPT ![r].j = @ + 1]
    /\ UNCHANGED <<folder, pipe_vars>>

\* finally: os.remove(fp); FileNotFoundError leaves the finally clause
CleanupRemove(r) ==
    /\ req[r].pc = "remove"
    /\ IF folder[req[r].file_paths[req[r].j]] # <<>>
       THEN /\ folder' = [folder EXCEPT ![req[r].file_paths[req[r].j]] = <<>>]
            /\ req' = [req EXCEPT ![r].pc = "cleanup", ![r].j = @ + 1]
       ELSE /\ req' = [req EXCEPT ![r].pc = "done", ![r].status = 500]
            /\ UNCHANGED folder
    /\ UNCHANGED pipe_vars

----------------------------------------------------------------------------
(* Specifications *)

PipeIdle ==
    /\ financials = <<>>
    /\ detected_fiscal_year = <<>>
    /\ ratios = EmptyDict
    /\ sub_scores = EmptyDict
    /\ overall_score = <<>>
    /\ trend_df = <<>>
    /\ result = <<>>
    /\ lookup = <<>>

ServerIdle ==
    /\ folder = [p \in Paths |-> <<>>]
    /\ req = [r \in Requests |-> IdleRequest]

\* run_analysis on a list of files
Init ==
    /\ file_paths \in SeqsUpTo(Files, MaxFiles)
    /\ pc = "consolidate"
    /\ PipeIdle
    /\ ServerIdle

Next ==
    \/ Consolidate
    \/ DetectYear
    \/ ComputeRatios
    \/ ScoreRatios
    \/ AnalyzeTrends
    \/ Assemble

Spec == Init /\ [][Next]_vars

\* The /analyze endpoint serving concurrent requests
InitServer ==
    /\ file_paths = <<>>
    /\ pc = "server"
    /\ PipeIdle
    /\ ServerIdle

NextServer ==
    \E r \in Requests :
        \/ Receive(r)
        \/ SaveFile(r)
        \/ Analyze(r)
        \/ CleanupCheck(r)
        \/ CleanupRemove(r)

SpecServer == InitServer /\ [][NextServer]_vars

----------------------------------------------------------------------------
(* financial_utils called directly: compute_ratios, score_ratios,          *)
(* analyze_trends and get_value on statements that need not come from      *)
(* consolidate_financials (labels may repeat, cells may be empty or text)  *)

MaxRows == 2

S_2024 == StrHeader(<<32, 50, 48, 50, 52>>)     \* " 2024"

\* Years a caller may ask for
RequestedYears == {S2024, Y2024, S_2024, FY23, Y2023}

DirectCells == {Num(0), Num(2), NanCell, TextCell}

\* A row over `cols`: the drawn cell in the first column, numbers one
\* higher in each further column
DirectRow(field, cell, cols) ==
    Row(field, [j \in DOMAIN cols |-> IF cell.k = "num" THEN Num(cell.v + j - 1) ELSE cell])

DirectIncomeCols == {<<Y2024>>, <<S2024, FY23>>, <<Y2023, S2024, Y2024>>}

DirectRows(cols) ==
    {DirectRow(Label(<<f>>), c, cols) : f \in {REVENUE, NET_PROFIT}, c \in DirectCells}

DirectIncome ==
    UNION {{Frame(TRUE, cols, rows) : rows \in SeqsUpTo(DirectRows(cols), MaxRows)} :
              cols \in DirectIncomeCols}

DirectBalance ==
    {Frame(TRUE, <<Y2024>>,
        <<Row(Label(<<CURRENT_ASSETS>>), <<Num(3)>>),
          Row(Label(<<CURRENT_ASSETS>>), <<Num(5)>>),
          Row(NaLabel, <<Num(1)>>),
          Row(Label(<<EQUITY>>), <<TextCell>>)>>),
     Frame(TRUE, <<S2024, Y2023>>,
        <<Row(Label(<<CURRENT_ASSETS>>), <<Num(4), Num(1)>>),
          Row(Label(<<NON_CURRENT_ASSETS>>), <<Num(-4), Num(1)>>),
          Row(Label(<<CURRENT_LIABILITIES>>), <<Num(2), Num(0)>>),
          Row(Label(<<EQUITY>>), <<Num(-2), Num(1)>>),
          Row(Label(<<NC_BORROWINGS>>), <<Num(1), NanCell>>),
          Row(Label(<<INVENTORIES>>), <<Num(1), Num(1)>>)>>),
     Frame(TRUE, <<Y2024, S2024>>,
        <<Row(Label(<<CURRENT_ASSETS>>), <<Num(2), Num(6)>>),
          Row(Label(<<CURRENT_LIABILITIES>>), <<Num(4), Num(3)>>),
          Row(Label(<<EQUITY>>), <<Num(1), Num(2)>>),
          Row(Label(<<C_BORROWINGS>>), <<Num(7), Num(1)>>)>>)}

\* compute_ratios(financials, fiscal_year)
CallComputeRatios ==
    /\ pc = "compute_ratios"
    /\ ratios' = compute_ratios(financials, detected_fiscal_year[1])
    /\ pc' = "score_ratios"
    /\ UNCHANGED <<file_paths, financials, detected_fiscal_year, sub_scores, overall_score,
                   trend_df, result, lookup, folder, req>>

\* score_ratios(ratios)
CallScoreRatios ==
    /\ pc = "score_ratios"
    /\ sub_scores' = score_ratios(ratios).sub_scores
    /\ overall_score' = <<score_ratios(ratios).overall>>
    /\ pc' = "analyze_trends"
    /\ UNCHANGED <<file_paths, financials, detected_fiscal_year, ratios, trend_df, result,
                   lookup, folder, req>>

\* analyze_trends(financials)
CallAnalyzeTrends ==
    /\ pc = "analyze_trends"
    /\ trend_df' = <<analyze_trends(financials)>>
    /\ pc' = "get_value"
    /\ UNCHANGED <<file_paths, financials, detected_fiscal_year, ratios, sub_scores,
                   overall_score, result, lookup, folder, req>>

\* get_value(df, field_name, year) for a column of df
CallGetValue ==
    /\ pc = "get_value"
    /\ \E df \in {financials[1].income, financials[1].balance} :
       \E field_name \in {REVENUE, NET_PROFIT, CURRENT_ASSETS, EQUITY} :
       \E y \in DOMAIN df.cols :
          lookup' = <<[df |-> df, field_name |-> field_name, year |-> df.cols[y],
                       val |-> get_value(df, field_name, df.cols[y])]>>
    /\ pc' = "done"
    /\ UNCHANGED <<file_paths, financials, detected_fiscal_year, ratios, sub_scores,
                   overall_score, trend_df, result, folder, req>>

InitDirect ==
    /\ file_paths = <<>>
    /\ pc = "compute_ratios"
    /\ \E income \in DirectIncome, balance \in DirectBalance :
          financials = <<[income |-> income, balance |-> balance]>>
    /\ \E y \in RequestedYears : detected_fiscal_year = <<y>>
    /\ ratios = EmptyDict
    /\ sub_scores = EmptyDict
    /\ overall_score = <<>>
    /\ trend_df = <<>>
    /\ result = <<>>
    /\ lookup = <<>>
    /\ ServerIdle

NextDirect ==
    \/ CallComputeRatios
    \/ CallScoreRatios
    \/ CallAnalyzeTrends
    \/ CallGetValue

SpecDirect == InitDirect /\ [][NextDirect]_vars

----------------------------------------------------------------------------
(* Claims on compute_ratios and get_value, under SpecDirect *)

Income == financials[1].income
Balance == financials[1].balance
Requested == detected_fiscal_year[1]

\* The two forms of the requested year, string form first
StrForm == StrHeader(PyStr(Requested))
IntForms == IF PyInt(Requested) = <<>> THEN {} ELSE {IntHeader(PyInt(Requested)[1])}
InBoth(h) == HasCol(Income, h) /\ HasCol(Balance, h)
YearResolves == \E h \in {StrForm} \cup IntForms : InBoth(h)
ResolvedColumn == IF InBoth(StrForm) THEN StrForm ELSE CHOOSE h \in IntForms : InBoth(h)

RatiosComputed == pc \in {"score_ratios", "analyze_trends", "get_value", "done"}

\* The rows of df labelled exactly `name`, and the numeric reading of a cell
RowsNamed(df, name) == {r \in DOMAIN df.rows : ~df.rows[r].Field.na /\ df.rows[r].Field.s = <<name>>}
CellNumber(c) == IF c.k = "num" THEN c.v ELSE 0
Item(df, name) ==
    IF RowsNamed(df, name) = {} THEN 0
    ELSE CellNumber(df.rows[CHOOSE r \in RowsNamed(df, name) : \A q \in RowsNamed(df, name) : r <= q]
                        .cells[ColIdx(df.cols, ResolvedColumn)])

\* Numerator and denominator of each ratio, from the line items
Numerator(k) ==
    CASE k = "Net Profit Margin" -> Item(Income, NET_PROFIT)
      [] k = "Return on Assets (ROA)" -> Item(Income, NET_PROFIT)
      [] k = "Debt to Equity Ratio" -> Item(Balance, NC_BORROWINGS) + Item(Balance, C_BORROWINGS)
      [] k = "Current Ratio" -> Item(Balance, CURRENT_ASSETS)
      [] k = "Gross Margin" ->
            Item(Income, REVENUE) - (Item(Income, COGS_MATERIALS) + Item(Income, COGS_PURCHASES)
                                     + Item(Income, COGS_CHANGES))
      [] k = "Quick Ratio" -> Item(Balance, CURRENT_ASSETS) - Item(Balance, INVENTORIES)

Denominator(k) ==
    CASE k \in {"Net Profit Margin", "Gross Margin"} -> Item(Income, REVENUE)
      [] k = "Return on Assets (ROA)" -> Item(Balance, CURRENT_ASSETS) + Item(Balance, NON_CURRENT_ASSETS)
      [] k = "Debt to Equity Ratio" -> Item(Balance, EQUITY)
      [] k \in {"Current Ratio", "Quick Ratio"} -> Item(Balance, CURRENT_LIABILITIES)

\* C1: whenever the requested year resolves to a column of both statements,
\* compute_ratios returns exactly the six ratio keys; every entry is a
\* defined number (no division by zero), equal to numerator/denominator when
\* the denominator is nonzero and equal to 0 when the denominator is 0.
C1_RatiosGuarded ==
    (RatiosComputed /\ YearResolves) =>
        /\ DOMAIN ratios = RatioKeys
        /\ \A k \in RatioKeys :
              /\ ratios[k].d > 0
              /\ IF Denominator(k) # 0
                 THEN ratios[k].n * Denominator(k) = Numerator(k) * ratios[k].d
                 ELSE ratios[k] = RatInt(0)

\* A call that resolved its year and met both a zero and a nonzero denominator
C1_Witness ==
    /\ RatiosComputed
    /\ YearResolves
    /\ Denominator("Net Profit Margin") = 0
    /\ Numerator("Net Profit Margin") # 0
    /\ Denominator("Current Ratio") # 0
    /\ ratios["Current Ratio"] # RatInt(0)

\* C7: compute_ratios accepts the string form of the requested year when it
\* is a header of both statements, else the integer-parsed form when that
\* is a header of both; the result is empty exactly when neither form is a
\* header of both, and otherwise holds the ratios of the accepted column.
\* A year stored as integer 2024 and requested as "2024" gets that column.
C7_YearResolution ==
    RatiosComputed =>
        /\ (ratios = EmptyDict) <=> ~YearResolves
        /\ YearResolves => ratios = RatiosFor(Income, Balance, ResolvedColumn)
        /\ (Requested = S2024 /\ ~InBoth(S2024) /\ InBoth(Y2024))
              => ratios = RatiosFor(Income, Balance, Y2024)

\* "2024" requested as a string, stored as the integer header 2024
C7_Witness ==
    /\ RatiosComputed
    /\ Requested = S2024
    /\ ~HasCol(Income, S2024)
    /\ InBoth(Y2024)
    /\ DOMAIN ratios = RatioKeys

----------------------------------------------------------------------------
(* Claims on run_analysis and consolidate_financials, under Spec *)

ResultKeys == {"ratios", "sub_scores", "overall_score", "trends", "ai_insights", "detected_fiscal_year"}

IsError == result # <<>> /\ "error" \in DOMAIN result[1]

\* C2: run_analysis returns either a result holding only an error message
\* or a result holding all six fields and no error.  A failed step stops
\* the later ones: nothing is returned before the end, after a failed
\* consolidation no year is detected, after a failed detection no ratios
\* are computed, after failed ratios nothing is scored and no trend is
\* analysed, and a trend analysis that raises ends in the error result.
\* When every file is unreadable the result is the error result.
C2_ErrorOrFullResult ==
    /\ pc # "done" => result = <<>>
    /\ pc = "done" =>
          /\ result # <<>>
          /\ DOMAIN result[1] = {"error"} \/ DOMAIN result[1] = ResultKeys
          /\ financials = <<>> => (IsError /\ detected_fiscal_year = <<>>)
          /\ detected_fiscal_year = <<>> => (IsError /\ ratios = EmptyDict)
          /\ ratios = EmptyDict => (IsError /\ sub_scores = EmptyDict /\ trend_df = <<>>)
          /\ (trend_df # <<>> /\ trend_df[1].raised) => IsError
          /\ (\A i \in DOMAIN file_paths : ~file_paths[i].readable) => IsError

\* A run on unreadable files only, ended with the error result
C2_Witness ==
    /\ pc = "done"
    /\ file_paths # <<>>
    /\ \A i \in DOMAIN file_paths : ~file_paths[i].readable
    /\ DOMAIN result[1] = {"error"}

\* A statement as the set of its columns, the set of its labels and the
\* value of each cell
Cell(df, label, h) ==
    df.rows[CHOOSE r \in DOMAIN df.rows : df.rows[r].Field.s = label].cells[ColIdx(df.cols, h)].v
LabelsOf(df) == {df.rows[r].Field.s : r \in DOMAIN df.rows}
SameTable(a, b) ==
    /\ Range(a.cols) = Range(b.cols)
    /\ Len(a.cols) = Len(b.cols)
    /\ LabelsOf(a) = LabelsOf(b)
    /\ Len(a.rows) = Len(b.rows)
    /\ \A l \in LabelsOf(a) : \A h \in Range(a.cols) : Cell(a, l, h) = Cell(b, l, h)
SameFinancials(a, b) ==
    IF a = <<>> \/ b = <<>> THEN a = b
    ELSE SameTable(a[1].income, b[1].income) /\ SameTable(a[1].balance, b[1].balance)

Consolidated == pc # "consolidate"

\* C3: every reordering of the input files consolidates to the same Income
\* Statement and Balance Sheet (same labels, same year columns, same sums),
\* or fails when the given order fails.
C3_OrderIndependent ==
    Consolidated =>
        \A p \in Perms(file_paths) : SameFinancials(consolidate_financials(p), financials)

\* Two different workbooks with a shared label and column were consolidated
C3_Witness ==
    /\ Consolidated
    /\ financials # <<>>
    /\ Len(file_paths) = 2
    /\ file_paths[1] # file_paths[2]
    /\ \A i \in DOMAIN file_paths : file_paths[i].readable /\ DOMAIN file_paths[i].sheets = {IncomeStatement, BalanceSheet}
    /\ Range(CollectSheets(file_paths, IncomeStatement)[1].cols)
          \cap Range(CollectSheets(file_paths, IncomeStatement)[2].cols) # {}

\* The input rows of a statement with their trimmed labels
TrimmedLabel(row) == StripLabel(FillNa(row.Field).s)
InputCell(sheet, r, h) == IF HasCol(sheet, h) THEN CellNumber(sheet.rows[r].cells[ColIdx(sheet.cols, h)]) ELSE 0
InputSum(sheets, label, h) ==
    SeqSum([k \in DOMAIN sheets |->
        SeqSum([r \in DOMAIN sheets[k].rows |->
            IF TrimmedLabel(sheets[k].rows[r]) = label THEN InputCell(sheets[k], r, h) ELSE 0])])

GroupedAndSummed(sheets, out) ==
    \A k \in DOMAIN sheets : \A r \in DOMAIN sheets[k].rows :
        /\ Cardinality({q \in DOMAIN out.rows : out.rows[q].Field = Label(TrimmedLabel(sheets[k].rows[r]))}) = 1
        /\ \A h \in Range(sheets[k].cols) :
              /\ HasCol(out, h)
              /\ Cell(out, TrimmedLabel(sheets[k].rows[r]), h) = InputSum(sheets, TrimmedLabel(sheets[k].rows[r]), h)

AllHaveField(sheets) == \A k \in DOMAIN sheets : sheets[k].hasField

InPercent(x) == RatLe(RatInt(0), x) /\ RatLe(x, RatInt(100))

\* C5: every sub-score score_ratios returns lies in [0, 100], and so does
\* the overall score.
C5_ScoresBounded ==
    overall_score # <<>> =>
        /\ \A k \in DOMAIN sub_scores : InPercent(sub_scores[k])
        /\ InPercent(overall_score[1])

NonDecreasing(s, Less(_, _)) == \A i, j \in DOMAIN s : i < j => ~Less(s[j], s[i])

\* C6: analyze_trends produces a trend table with one column per Income
\* Statement year header, in ascending numeric order when every header
\* parses as an integer and in ascending lexicographic order of the
\* headers' text when some header does not parse.
C6_TrendOrder ==
    (trend_df # <<>> /\ financials # <<>> /\ financials[1].income.cols # <<>>) =>
        LET years == financials[1].income.cols
            cols == trend_df[1].df.cols
        IN /\ ~trend_df[1].raised
           /\ Len(cols) = Len(years)
           /\ Range(cols) = Range(years)
           /\ IF \A i \in DOMAIN years : YearKey(years[i]) # <<>>
              THEN NonDecreasing(cols, LAMBDA a, b : YearKey(a)[1] < YearKey(b)[1])
              ELSE NonDecreasing(cols, LAMBDA a, b : StrLess(PyStr(a), PyStr(b)))

YearColumns == financials[1].income.cols
ParsingColumns == {i \in DOMAIN YearColumns : FloatOfStr(PyStr(YearColumns[i])) # <<>>}
YearValue(i) == FloatOfStr(PyStr(YearColumns[i]))[1]
MaximumColumns == {i \in ParsingColumns : \A j \in ParsingColumns : RatLe(YearValue(j), YearValue(i))}
Detected == pc \in {"ratios", "score", "trends", "insights"} \/ (pc = "done" /\ financials # <<>>)
NamesMaximumColumn(year) == \E i \in MaximumColumns : PyStr(YearColumns[i]) = year

\* C10 as stated: the detected fiscal year is the Income Statement column
\* of maximum numeric value among those that parse; the "no numeric year
\* columns" error is returned if and only if no year column parses; a
\* non-error result names the maximum column.
C10_DetectsMaximum ==
    Detected =>
        /\ detected_fiscal_year # <<>> => NamesMaximumColumn(detected_fiscal_year[1].s)
        /\ pc = "done" =>
              /\ (result[1] = ErrorResult(ErrNoNumericYear)) <=> (ParsingColumns = {})
              /\ ~IsError => NamesMaximumColumn(result[1].detected_fiscal_year)

\* C10 amended: as stated, but the "no numeric year columns" error is
\* returned if and only if the consolidated Income Statement has at least
\* one year column and none parses; without any year column the "no fiscal
\* year columns" error is returned instead.
C10_DetectsMaximumOfSome ==
    Detected =>
        /\ detected_fiscal_year # <<>> => NamesMaximumColumn(detected_fiscal_year[1].s)
        /\ pc = "done" =>
              /\ (result[1] = ErrorResult(ErrNoNumericYear)) <=> (YearColumns # <<>> /\ ParsingColumns = {})
              /\ (result[1] = ErrorResult(ErrNoYearColumns)) <=> (YearColumns = <<>>)
              /\ ~IsError => NamesMaximumColumn(result[1].detected_fiscal_year)

\* A finished run that skipped an unparseable column and named the maximum
\* of the others, which is not the first column that parses
C10_Witness ==
    /\ pc = "done"
    /\ ~IsError
    /\ Cardinality(ParsingColumns) > 1
    /\ ParsingColumns # DOMAIN YearColumns
    /\ 1 \in ParsingColumns \ MaximumColumns
    /\ NamesMaximumColumn(result[1].detected_fiscal_year)

----------------------------------------------------------------------------
(* Claims on the /analyze endpoint, under SpecServer *)

\* The files in the upload folder that request r saved
SavedBy(r) == {p \in Paths : folder[p] # <<>> /\ folder[p][1].owner = r}

\* C8: once an /analyze request has finished, with whatever outcome, no
\* file that request saved is left in the upload folder.
C8_UploadsRemoved ==
    \A r \in Requests : req[r].pc = "done" => SavedBy(r) = {}

\* The content request r uploaded last under path p: its own save of the
\* latest part of its upload whose sanitized name is p
OwnContent(r, p) ==
    LET parts == {k \in DOMAIN req[r].file_paths : req[r].file_paths[k] = p}
    IN <<[owner |-> r, part |-> CHOOSE k \in parts : \A m \in parts : m <= k]>>

\* Request r has saved files and its run_analysis has not returned yet
BeforeAnalysisReturns(r) == req[r].pc \in {"save", "analyze"}

\* C11: with two /analyze requests running concurrently, a file saved by
\* one request is neither overwritten nor deleted by the other before the
\* saving request's run_analysis has returned, and every file a request's
\* run_analysis read held exactly the content uploaded to that request.
C11_RequestsIsolated ==
    \A r \in Requests :
        /\ BeforeAnalysisReturns(r) =>
              \A k \in DOMAIN req[r].file_paths :
                  folder[req[r].file_paths[k]] = OwnContent(r, req[r].file_paths[k])
        /\ \A k \in DOMAIN req[r].read :
              req[r].read[k] = OwnContent(r, req[r].file_paths[k])

====
